---- MODULE Spec2Model ----
(***************************************************************************)
(* Model of src/src/loader/log_loader.py (Python 2): the reverse log scan  *)
(* of BaseLogDataLoader, the formatters, filters and breakers it is given, *)
(* and ConfigLoader.load.                                                  *)
(*                                                                         *)
(* A file is modelled by the rows csv.reader yields for it (a row is the   *)
(* sequence of fields of one physical line; a blank line is the empty      *)
(* row).  Python values that can have two types are encoded so that both   *)
(* cases stay distinguishable: a record's 'datetime' is a number of        *)
(* minutes, or EmptyStr for the '' of the empty dict; a server record's    *)
(* 'data' is [kind |-> "str"|"dict", text, items].  A call that can raise  *)
(* returns [exc |-> name of the exception or "None", val |-> its value].   *)
(***************************************************************************)
EXTENDS Integers, Sequences, FiniteSets, TLC

VARIABLES
    isFile,          \* os.path.isfile(filePath)
    lines,           \* list(csvReader): the rows of the file, first line first
    lineFormatter,   \* "None" or the class of the formatter
    filters,         \* [given |-> BOOLEAN, chain |-> sequence of filters]
    readerBreaker,   \* [kind |-> "None" or class, startTime, endGiven, endTime]
    pc,              \* position in _get_data_from_file / __read_data_from_file
    line_index,      \* line_index of the loop
    rst_lines,       \* rst_lines
    data,            \* data of the current iteration
    fi,              \* position of the for-loop over filters (1-based)
    outcome,         \* "running", "None", "list" or the exception raised
    opened,          \* whether open(filePath) was executed
    errorsLogged,    \* number of logger.error entries
    infosLogged,     \* number of logger.info entries
    trace,           \* history of the calls made on formatter, breaker, filters
    rst_index,       \* history: line_index of each element of rst_lines
    cfgFile,         \* the configuration file given to ConfigLoader.load
    cfg,             \* the six attributes of the ConfigLoader instance
    cfgBefore,       \* history: cfg when load was called
    cfgPc,           \* "call", "returned" or "raised"
    cfgErrors        \* number of logger.error entries of ConfigLoader.load

scanVars == <<isFile, lines, lineFormatter, filters, readerBreaker, pc, line_index,
              rst_lines, data, fi, outcome, opened, errorsLogged, infosLogged,
              trace, rst_index>>
cfgVars == <<cfgFile, cfg, cfgBefore, cfgPc, cfgErrors>>
vars == <<scanVars, cfgVars>>

-----------------------------------------------------------------------------
(* Bounds of the model *)

MaxLines == 3
MaxWindowLines == 4

-----------------------------------------------------------------------------
(* Values *)

\* '' as the value of a record's 'datetime' (a str, not a datetime)
EmptyStr == -1

Times == {600, 605, 610, 615}

\* text of a timestamp in the server log, '%Y-%m-%dT%H:%M:%S+08:00'
ServerStamp(m) ==
    CASE m = 600 -> "2021-01-01T10:00:00+08:00"
      [] m = 605 -> "2021-01-01T10:05:00+08:00"
      [] m = 610 -> "2021-01-01T10:10:00+08:00"
      [] m = 615 -> "2021-01-01T10:15:00+08:00"

\* text of a timestamp in the local log, '%Y-%m-%d %H:%M:%S'
LocalStamp(m) ==
    CASE m = 600 -> "2021-01-01 10:00:00"
      [] m = 605 -> "2021-01-01 10:05:00"
      [] m = 610 -> "2021-01-01 10:10:00"
      [] m = 615 -> "2021-01-01 10:15:00"

Ok(v) == [exc |-> "None", val |-> v]
Raise(e) == [exc |-> e, val |-> <<>>]

\* datetime.strptime(s, '%Y-%m-%dT%H:%M:%S+08:00'): ValueError when s does not match
StrptimeServer(s) ==
    IF \E m \in Times : ServerStamp(m) = s
    THEN Ok(CHOOSE m \in Times : ServerStamp(m) = s)
    ELSE Raise("ValueError")

\* datetime.strptime(s, '%Y-%m-%d %H:%M:%S')
StrptimeLocal(s) ==
    IF \E m \in Times : LocalStamp(m) = s
    THEN Ok(CHOOSE m \in Times : LocalStamp(m) = s)
    ELSE Raise("ValueError")

StrData(s) == [kind |-> "str", text |-> s, items |-> {}]
DictData(kvs) == [kind |-> "dict", text |-> "", items |-> kvs]

\* urllib2.unquote(data).split('&'), each column split on '=': the columns of the
\* query strings used in the model; a column without '=' has one part only
QueryColumns(s) ==
    CASE s = "p=42&s=a%2Cb" -> << <<"p", "42">>, <<"s", "a,b">> >>
      [] s = "p=7&s=x"      -> << <<"p", "7">>, <<"s", "x">> >>
      [] s = "s=x"          -> << <<"s", "x">> >>
      [] s = "p"            -> << <<"p">> >>
      [] OTHER              -> << <<s>> >>

\* ServerLogFormatter.__format_data_field
FormatDataField(s) ==
    IF s = "-" THEN Ok(StrData(""))
    ELSE LET cols == QueryColumns(s)
         IN  IF \E i \in 1..Len(cols) : Len(cols[i]) < 2
             THEN Raise("IndexError")          \* kv[1] of a column without '='
             ELSE Ok(DictData({<<cols[i][1], cols[i][2]>> : i \in 1..Len(cols)}))

\* ServerLogFormatter.__create_empty_dict
ServerEmptyDict ==
    [ip |-> "", datetime |-> EmptyStr, method |-> "", data |-> StrData(""),
     return_code |-> "", user_agent |-> ""]

\* ServerLogFormatter.format
ServerLogFormatter_format(cols) ==
    IF Len(cols) = 10
    THEN LET t == StrptimeServer(cols[2])
             d == FormatDataField(cols[6])
         IN  IF t.exc # "None" THEN Raise(t.exc)
             ELSE IF d.exc # "None" THEN Raise(d.exc)
             ELSE Ok([ip |-> cols[1], datetime |-> t.val, method |-> cols[3],
                      data |-> d.val, return_code |-> cols[7],
                      user_agent |-> cols[10]])
    ELSE Ok(ServerEmptyDict)

\* LocalLogFormatter.__create_empty_dict
LocalEmptyDict == [datetime |-> EmptyStr, user_agent |-> "", data |-> ""]

\* LocalLogFormatter.format
LocalLogFormatter_format(lineContent) ==
    IF Len(lineContent) = 3
    THEN LET t == StrptimeLocal(lineContent[1])
         IN  IF t.exc # "None" THEN Raise(t.exc)
             ELSE Ok([datetime |-> t.val, user_agent |-> lineContent[2],
                      data |-> lineContent[3]])
    ELSE Ok(LocalEmptyDict)

\* data = line; if not lineFormatter is None: data = lineFormatter.format(line)
Format(formatter, line) ==
    CASE formatter = "None" -> Ok(line)
      [] formatter = "BaseLineFormatter" -> Ok(line)
      [] formatter = "ServerLogFormatter" -> ServerLogFormatter_format(line)
      [] formatter = "LocalLogFormatter" -> LocalLogFormatter_format(line)

-----------------------------------------------------------------------------
(* Filters *)

BaseFilter == [kind |-> "BaseLogLineFilter", pid |-> "", uaGiven |-> FALSE, userAgent |-> ""]

\* ServerDataFilter.__init__ (userAgent None is uaGiven = FALSE)
ServerDataFilter(pid, uaGiven, userAgent) ==
    [kind |-> "ServerDataFilter", pid |-> pid, uaGiven |-> uaGiven, userAgent |-> userAgent]

\* data['p'] of a dict that has the key
DictGet(d, k) == (CHOOSE kv \in d.items : kv[1] = k)[2]

\* ServerDataFilter.accept, on a record of ServerLogFormatter
ServerDataFilter_accept(f, lineContent) ==
    IF lineContent.data.kind = "str" /\ lineContent.data.text = "" THEN FALSE
    ELSE IF ~(\E kv \in lineContent.data.items : kv[1] = "p") THEN FALSE
    ELSE IF f.pid # DictGet(lineContent.data, "p") THEN FALSE
    ELSE IF f.uaGiven /\ lineContent.user_agent # f.userAgent THEN FALSE
    ELSE TRUE

\* fi.accept(data)
Accept(f, lineContent) ==
    CASE f.kind = "BaseLogLineFilter" -> TRUE
      [] f.kind = "ServerDataFilter" -> ServerDataFilter_accept(f, lineContent)

-----------------------------------------------------------------------------
(* Breakers *)

NoBreaker == [kind |-> "None", startTime |-> EmptyStr, endGiven |-> FALSE, endTime |-> EmptyStr]
BaseBreaker == [NoBreaker EXCEPT !.kind = "BaseReaderBreaker"]
LastAcceptedBreaker == [NoBreaker EXCEPT !.kind = "LastAcceptedReaderBreaker"]

\* ServerLogTimeLastBreaker.__init__ with endTime None
TimeBreaker(startTime) ==
    [kind |-> "ServerLogTimeLastBreaker", startTime |-> startTime,
     endGiven |-> FALSE, endTime |-> EmptyStr]

\* ServerLogTimeLastBreaker.__init__ with an endTime
TimeBreakerTo(startTime, endTime) ==
    [kind |-> "ServerLogTimeLastBreaker", startTime |-> startTime,
     endGiven |-> TRUE, endTime |-> endTime]

\* PyGreater with >= in place of >
PyGreater_OrEqual(a, b) ==
    IF a # EmptyStr /\ b # EmptyStr THEN Ok(a >= b)
    ELSE IF a = EmptyStr /\ b = EmptyStr THEN Ok(FALSE)
    ELSE Raise("TypeError")

\* Python 2's a > b where each side is a datetime or the str '': two datetimes
\* compare by time, '' > '' is False, a datetime against a str raises TypeError
PyGreater(a, b) ==
    IF a # EmptyStr /\ b # EmptyStr THEN Ok(a > b)
    ELSE IF a = EmptyStr /\ b = EmptyStr THEN Ok(FALSE)
    ELSE Raise("TypeError")

\* ServerLogTimeLastBreaker.breakFromThisLine
ServerLogTimeLastBreaker_break(b, lineContent) ==
    LET early == PyGreater(b.startTime, lineContent.datetime)
        late  == PyGreater(lineContent.datetime, b.endTime)
    IN  IF early.exc # "None" THEN early
        ELSE IF early.val THEN Ok(TRUE)
        ELSE IF b.endGiven
             THEN (IF late.exc # "None" THEN late
                   ELSE IF late.val THEN Ok(TRUE) ELSE Ok(FALSE))
             ELSE Ok(FALSE)

\* LastAcceptedReaderBreaker.breakFromThisLine
LastAcceptedReaderBreaker_break(totalReadLineCount) == totalReadLineCount > 0

\* readerBreaker.breakFromThisLine(lineIndex, lineNum, totalReadLineCount, lineContent)
BreakFromThisLine(b, lineIndex, lineNum, totalReadLineCount, lineContent) ==
    CASE b.kind = "BaseReaderBreaker" -> Ok(FALSE)
      [] b.kind = "LastAcceptedReaderBreaker" ->
            Ok(LastAcceptedReaderBreaker_break(totalReadLineCount))
      [] b.kind = "ServerLogTimeLastBreaker" -> ServerLogTimeLastBreaker_break(b, lineContent)

-----------------------------------------------------------------------------
(* _get_data_from_file and __read_data_from_file, one step at a time *)

Event(op, idx, k, res) == [op |-> op, idx |-> idx, k |-> k, res |-> res]

\* LineAt without reversed(): the file read first line first
LineAt_Forward(i) == lines[i]

\* the line the loop is at: reversed(lines), line_index counted from 1
LineAt(i) == lines[Len(lines) - i + 1]

HasFilters == filters.given /\ Len(filters.chain) > 0

\* AfterBreak with the filter loop left out
AfterBreak_SkipFilters == "append"

\* what follows the breaker's check: the filter loop, when there are filters
AfterBreak == IF HasFilters THEN "filter" ELSE "append"

\* AfterFormat with the breaker never consulted
AfterFormat_NoBreaker == AfterBreak

\* what follows the formatting: the breaker's check, when there is a breaker
AfterFormat == IF readerBreaker.kind # "None" THEN "break" ELSE AfterBreak

\* FileNotFound without the return: the missing file is read all the same
FileNotFound_Proceed ==
    /\ pc = "call"
    /\ ~isFile
    /\ errorsLogged' = errorsLogged + 2
    /\ opened' = TRUE
    /\ pc' = "loop"
    /\ UNCHANGED <<isFile, lines, lineFormatter, filters, readerBreaker, line_index,
                   rst_lines, data, fi, outcome, infosLogged, trace, rst_index>>
    /\ UNCHANGED cfgVars

\* if not os.path.isfile(filePath): two logger.error calls, return None
FileNotFound ==
    /\ pc = "call"
    /\ ~isFile
    /\ errorsLogged' = errorsLogged + 2
    /\ outcome' = "None"
    /\ pc' = "done"
    /\ UNCHANGED <<isFile, lines, lineFormatter, filters, readerBreaker, line_index,
                   rst_lines, data, fi, opened, infosLogged, trace, rst_index>>
    /\ UNCHANGED cfgVars

\* open(filePath, 'rb'); lines = list(csvReader); line_count = len(lines)
ReadFile ==
    /\ pc = "call"
    /\ isFile
    /\ opened' = TRUE
    /\ rst_lines' = <<>>
    /\ line_index' = 0
    /\ pc' = "loop"
    /\ UNCHANGED <<isFile, lines, lineFormatter, filters, readerBreaker, data, fi,
                   outcome, errorsLogged, infosLogged, trace, rst_index>>
    /\ UNCHANGED cfgVars

\* NextLine without the test for an empty row
NextLine_NoSkip ==
    /\ pc = "loop"
    /\ line_index < Len(lines)
    /\ line_index' = line_index + 1
    /\ pc' = "format"
    /\ UNCHANGED <<isFile, lines, lineFormatter, filters, readerBreaker, rst_lines,
                   data, fi, outcome, opened, errorsLogged, infosLogged, trace,
                   rst_index>>
    /\ UNCHANGED cfgVars

\* for line in reversed(lines): line_index += 1; if len(line) == 0: continue
NextLine ==
    /\ pc = "loop"
    /\ line_index < Len(lines)
    /\ line_index' = line_index + 1
    /\ pc' = IF Len(LineAt(line_index + 1)) = 0 THEN "loop" ELSE "format"
    /\ UNCHANGED <<isFile, lines, lineFormatter, filters, readerBreaker, rst_lines,
                   data, fi, outcome, opened, errorsLogged, infosLogged, trace,
                   rst_index>>
    /\ UNCHANGED cfgVars

\* the loop is exhausted: return rst_lines
ReturnList ==
    /\ pc = "loop"
    /\ line_index = Len(lines)
    /\ outcome' = "list"
    /\ pc' = "done"
    /\ UNCHANGED <<isFile, lines, lineFormatter, filters, readerBreaker, line_index,
                   rst_lines, data, fi, opened, errorsLogged, infosLogged, trace,
                   rst_index>>
    /\ UNCHANGED cfgVars

\* data = line; if not lineFormatter is None: data = lineFormatter.format(line)
FormatLine ==
    /\ pc = "format"
    /\ LET r == Format(lineFormatter, LineAt(line_index))
       IN  IF r.exc # "None"
           THEN /\ outcome' = r.exc
                /\ pc' = "done"
                /\ trace' = Append(trace, Event("format", line_index, 0, FALSE))
                /\ UNCHANGED data
           ELSE /\ data' = r.val
                /\ pc' = AfterFormat
                /\ trace' = Append(trace, Event("format", line_index, 0, TRUE))
                /\ UNCHANGED outcome
    /\ fi' = 1
    /\ UNCHANGED <<isFile, lines, lineFormatter, filters, readerBreaker, line_index,
                   rst_lines, opened, errorsLogged, infosLogged, rst_index>>
    /\ UNCHANGED cfgVars

\* if readerBreaker.breakFromThisLine(...): logger.info(...); break
ConsultBreaker ==
    /\ pc = "break"
    /\ LET r == BreakFromThisLine(readerBreaker, line_index, Len(lines) - line_index,
                                  Len(rst_lines), data)
       IN  IF r.exc # "None"
           THEN /\ outcome' = r.exc
                /\ pc' = "done"
                /\ trace' = Append(trace, Event("raise", line_index, 0, FALSE))
                /\ UNCHANGED infosLogged
           ELSE IF r.val
           THEN /\ infosLogged' = infosLogged + 1
                /\ outcome' = "list"
                /\ pc' = "done"
                /\ trace' = Append(trace, Event("break", line_index, 0, TRUE))
           ELSE /\ pc' = AfterBreak
                /\ trace' = Append(trace, Event("break", line_index, 0, FALSE))
                /\ UNCHANGED <<outcome, infosLogged>>
    /\ UNCHANGED <<isFile, lines, lineFormatter, filters, readerBreaker, line_index,
                   rst_lines, data, fi, opened, errorsLogged, rst_index>>
    /\ UNCHANGED cfgVars

\* ApplyFilter without the break on a rejection: the last filter decides
ApplyFilter_NoShortCircuit ==
    /\ pc = "filter"
    /\ LET ok == Accept(filters.chain[fi], data)
       IN  /\ trace' = Append(trace, Event("accept", line_index, fi, ok))
           /\ IF fi < Len(filters.chain) THEN pc' = "filter" /\ fi' = fi + 1
              ELSE IF ok THEN pc' = "append" /\ fi' = 1
              ELSE pc' = "loop" /\ fi' = 1
    /\ UNCHANGED <<isFile, lines, lineFormatter, filters, readerBreaker, line_index,
                   rst_lines, data, outcome, opened, errorsLogged, infosLogged,
                   rst_index>>
    /\ UNCHANGED cfgVars

\* for fi in filters: line_accepted = fi.accept(data); if not line_accepted: break
\* and, after the loop, if not line_accepted: continue
ApplyFilter ==
    /\ pc = "filter"
    /\ LET ok == Accept(filters.chain[fi], data)
       IN  /\ trace' = Append(trace, Event("accept", line_index, fi, ok))
           /\ IF ~ok THEN pc' = "loop" /\ fi' = 1
              ELSE IF fi = Len(filters.chain) THEN pc' = "append" /\ fi' = 1
              ELSE pc' = "filter" /\ fi' = fi + 1
    /\ UNCHANGED <<isFile, lines, lineFormatter, filters, readerBreaker, line_index,
                   rst_lines, data, outcome, opened, errorsLogged, infosLogged,
                   rst_index>>
    /\ UNCHANGED cfgVars

\* rst_lines.append(data)
AppendLine ==
    /\ pc = "append"
    /\ rst_lines' = Append(rst_lines, data)
    /\ rst_index' = Append(rst_index, line_index)
    /\ trace' = Append(trace, Event("append", line_index, 0, TRUE))
    /\ pc' = "loop"
    /\ UNCHANGED <<isFile, lines, lineFormatter, filters, readerBreaker, line_index,
                   data, fi, outcome, opened, errorsLogged, infosLogged>>
    /\ UNCHANGED cfgVars

Next ==
    \/ FileNotFound
    \/ ReadFile
    \/ NextLine
    \/ ReturnList
    \/ FormatLine
    \/ ConsultBreaker
    \/ ApplyFilter
    \/ AppendLine

-----------------------------------------------------------------------------
(* Files and calls *)

SeqsUpTo(S, n) == UNION {[1..k -> S] : k \in 0..n}

Blank == <<>>

\* a line of the server log: ten fields, timestamp second, query data sixth,
\* user agent tenth
ServerLine(stamp, query, agent) ==
    <<"10.0.0.1", stamp, "POST", "/log", "HTTP/1.1", query, "200", "512", "-", agent>>

\* a line of the server log with nine fields
ShortServerLine ==
    <<"10.0.0.1", ServerStamp(605), "POST", "/log", "HTTP/1.1", "p=42&s=a%2Cb", "200", "512", "-">>

\* a line of the local log: timestamp, user agent, payload
LocalLine(stamp, agent, payload) == <<stamp, agent, payload>>

NoFilters == [given |-> FALSE, chain |-> <<>>]
Filters(chain) == [given |-> TRUE, chain |-> chain]

NoCfgFile == [readable |-> FALSE, options |-> {}]
NoCfg == [serverLogInputPath |-> "", serverLogPID |-> "", serverLogDeviceName |-> "",
          serverLogOutputPath |-> "", localLogInputPath |-> "", localLogOutputPath |-> ""]

\* the state at the call of _get_data_from_file(filePath, formatter, filters, breaker)
InitCall(files, calls) ==
    /\ isFile \in BOOLEAN
    /\ lines \in files
    /\ \E c \in calls :
          /\ lineFormatter = c[1]
          /\ filters = c[2]
          /\ readerBreaker = c[3]
    /\ pc = "call"
    /\ line_index = 0
    /\ rst_lines = <<>>
    /\ data = <<>>
    /\ fi = 1
    /\ outcome = "running"
    /\ opened = FALSE
    /\ errorsLogged = 0
    /\ infosLogged = 0
    /\ trace = <<>>
    /\ rst_index = <<>>
    /\ cfgFile = NoCfgFile
    /\ cfg = NoCfg
    /\ cfgBefore = NoCfg
    /\ cfgPc = "idle"
    /\ cfgErrors = 0

EngineLines ==
    {Blank,
     ServerLine(ServerStamp(610), "p=42&s=a%2Cb", "ua-1"),
     ServerLine(ServerStamp(605), "p=42&s=a%2Cb", "ua-2"),
     ServerLine(ServerStamp(600), "-", "ua-1"),
     ServerLine(ServerStamp(615), "p", "ua-1"),
     ShortServerLine}

EngineChains ==
    {NoFilters,
     Filters(<<>>),
     Filters(<<ServerDataFilter("42", FALSE, "")>>),
     Filters(<<ServerDataFilter("42", TRUE, "ua-1"), BaseFilter>>),
     Filters(<<BaseFilter, ServerDataFilter("42", TRUE, "ua-1")>>)}

EngineBreakers ==
    {NoBreaker, BaseBreaker, LastAcceptedBreaker, TimeBreaker(605), TimeBreakerTo(600, 610)}

\* calls of _get_data_from_file: without formatter or with the identity
\* formatter, and with the server log's formatter, filters and breakers
EngineCalls ==
    ({"None"} \X {NoFilters, Filters(<<BaseFilter>>)}
        \X {NoBreaker, BaseBreaker, LastAcceptedBreaker})
    \cup {<<"BaseLineFormatter", NoFilters, NoBreaker>>}
    \cup ({"ServerLogFormatter"} \X EngineChains \X EngineBreakers)

Init == InitCall(SeqsUpTo(EngineLines, MaxLines), EngineCalls)

Spec == Init /\ [][Next]_vars

\* the server log of the time-window scenario: well-formed lines of four
\* minutes, and a line of nine fields
WindowLines ==
    {ServerLine(ServerStamp(m), "p=42&s=a%2Cb", "ua-1") : m \in Times}
    \cup {ShortServerLine}

\* scans with ServerLogTimeLastBreaker(startTime), no end time, and a filter
\* chain that accepts every record
WindowCalls ==
    {"ServerLogFormatter"} \X {NoFilters, Filters(<<BaseFilter>>)}
        \X {TimeBreaker(m) : m \in Times}

InitWindow == InitCall(SeqsUpTo(WindowLines, MaxWindowLines), WindowCalls)

SpecWindow == InitWindow /\ [][Next]_vars

\* BaseLogDataLoader.load: _get_last_data(filePath)
BaseLogDataLoader_load == <<"None", NoFilters, LastAcceptedBreaker>>

\* LocalDataFileLoader.load: _get_last_data(filePath, LocalLogFormatter(), None)
LocalDataFileLoader_load == <<"LocalLogFormatter", NoFilters, LastAcceptedBreaker>>

\* ServerDataLoader.load, for ServerDataLoader(pid, userAgent, jsonDataStr, sendTime)
ServerDataLoader_load(pid, uaGiven, userAgent, sendTime) ==
    <<"ServerLogFormatter", Filters(<<ServerDataFilter(pid, uaGiven, userAgent)>>),
      TimeBreaker(sendTime)>>

ServerLogLines ==
    {Blank,
     ServerLine(ServerStamp(610), "p=42&s=a%2Cb", "ua-1"),
     ServerLine(ServerStamp(615), "p=7&s=x", "ua-1"),
     ServerLine(ServerStamp(600), "s=x", "ua-2"),
     ServerLine(ServerStamp(610), "p", "ua-1"),
     ServerLine("2021-01-01 10:10:00", "p=42&s=a%2Cb", "ua-1"),
     ShortServerLine}

LocalLogLines ==
    {Blank,
     LocalLine(LocalStamp(600), "ua-1", "{}"),
     LocalLine(LocalStamp(610), "ua-2", "{}"),
     LocalLine("10:10", "ua-1", "{}"),
     <<LocalStamp(605), "ua-1">>}

\* load of each loader class on a log of its kind
InitLoaders ==
    \/ InitCall(SeqsUpTo(ServerLogLines, MaxLines),
                {ServerDataLoader_load("42", g, "ua-1", m) :
                    g \in BOOLEAN, m \in {605, 610}})
    \/ InitCall(SeqsUpTo(LocalLogLines, MaxLines),
                {BaseLogDataLoader_load, LocalDataFileLoader_load})

SpecLoaders == InitLoaders /\ [][Next]_vars

-----------------------------------------------------------------------------
(* ConfigLoader *)

\* the options load reads, in the order of its config.get calls
LoadOrder ==
    <<"Server.input", "Server.pid", "Server.device", "Server.output",
      "Local.input", "Local.output">>

CfgOptions == {LoadOrder[i] : i \in 1..Len(LoadOrder)}

\* the text the configuration file gives an option
CfgText(option) ==
    CASE option = "Server.input"  -> "~/logs/server.log"
      [] option = "Server.pid"    -> "42"
      [] option = "Server.device" -> "ua-1"
      [] option = "Server.output" -> "out/server.txt"
      [] option = "Local.input"   -> "/var/log/local.log"
      [] option = "Local.output"  -> "out/local.txt"

\* ConfigLoader.__normalize_path: os.path.abspath(os.path.expanduser(path)),
\* for the home /home/user and the working directory /work
NormalizePath(path) ==
    CASE path = "~/logs/server.log" -> "/home/user/logs/server.log"
      [] path = "out/server.txt"    -> "/work/out/server.txt"
      [] path = "out/local.txt"     -> "/work/out/local.txt"
      [] OTHER                      -> path

\* the class attributes of ConfigLoader (serverLogDeviceName is None)
CfgDefaults ==
    [serverLogInputPath |-> "server_input.log", serverLogPID |-> "e7a564d6b1d6e03e",
     serverLogDeviceName |-> "None", serverLogOutputPath |-> "server_output.txt",
     localLogInputPath |-> "local_input.log", localLogOutputPath |-> "local_output.txt"]

\* the i-th assignment of load
Assign(c, i) ==
    CASE i = 1 -> [c EXCEPT !.serverLogInputPath = NormalizePath(CfgText(LoadOrder[1]))]
      [] i = 2 -> [c EXCEPT !.serverLogPID = CfgText(LoadOrder[2])]
      [] i = 3 -> [c EXCEPT !.serverLogDeviceName = CfgText(LoadOrder[3])]
      [] i = 4 -> [c EXCEPT !.serverLogOutputPath = NormalizePath(CfgText(LoadOrder[4]))]
      [] i = 5 -> [c EXCEPT !.localLogInputPath = NormalizePath(CfgText(LoadOrder[5]))]
      [] i = 6 -> [c EXCEPT !.localLogOutputPath = NormalizePath(CfgText(LoadOrder[6]))]

\* the assignments of load from the i-th on: config.get raises on an option (or
\* a section) the file does not have, and the except clause logs one error
RECURSIVE LoadFrom(_, _, _)
LoadFrom(file, c, i) ==
    IF i > Len(LoadOrder) THEN [cfg |-> c, errors |-> 0]
    ELSE IF LoadOrder[i] \notin file.options THEN [cfg |-> c, errors |-> 1]
    ELSE LoadFrom(file, Assign(c, i), i + 1)

\* ConfigLoader.load(path): config.readfp(open(path)) raises on a file that
\* cannot be read or parsed
ConfigLoad ==
    /\ cfgPc = "call"
    /\ LET r == IF cfgFile.readable THEN LoadFrom(cfgFile, cfg, 1)
                ELSE [cfg |-> cfg, errors |-> 1]
       IN  /\ cfg' = r.cfg
           /\ cfgErrors' = r.errors
    /\ cfgPc' = "returned"
    /\ UNCHANGED <<cfgFile, cfgBefore>>
    /\ UNCHANGED scanVars

CfgFiles ==
    {[readable |-> FALSE, options |-> {}]}
    \cup {[readable |-> TRUE, options |-> o] : o \in SUBSET CfgOptions}

\* load is called again on the same instance, with some file
ConfigCall ==
    /\ cfgPc = "returned"
    /\ cfgFile' \in CfgFiles
    /\ cfgBefore' = cfg
    /\ cfgErrors' = 0
    /\ cfgPc' = "call"
    /\ UNCHANGED cfg
    /\ UNCHANGED scanVars

NextConfig ==
    \/ ConfigLoad
    \/ ConfigCall

\* a fresh ConfigLoader and the first call of load
InitConfig ==
    /\ cfgFile \in CfgFiles
    /\ cfg = CfgDefaults
    /\ cfgBefore = CfgDefaults
    /\ cfgPc = "call"
    /\ cfgErrors = 0
    /\ isFile = FALSE
    /\ lines = <<>>
    /\ lineFormatter = "None"
    /\ filters = NoFilters
    /\ readerBreaker = NoBreaker
    /\ pc = "idle"
    /\ line_index = 0
    /\ rst_lines = <<>>
    /\ data = <<>>
    /\ fi = 1
    /\ outcome = "running"
    /\ opened = FALSE
    /\ errorsLogged = 0
    /\ infosLogged = 0
    /\ trace = <<>>
    /\ rst_index = <<>>

SpecConfig == InitConfig /\ [][NextConfig]_vars

-----------------------------------------------------------------------------
(* __read_data_from_file as a function of the rows *)

\* the filter loop on one record: TRUE when no filter rejects it
RECURSIVE ChainAccepts(_, _, _)
ChainAccepts(chain, k, rec) ==
    IF k > Len(chain) THEN TRUE
    ELSE IF ~Accept(chain[k], rec) THEN FALSE
    ELSE ChainAccepts(chain, k + 1, rec)

\* the loop from the (i+1)-th row from the end on, acc being rst_lines so far
RECURSIVE ReadFrom(_, _, _)
ReadFrom(rows, i, acc) ==
    IF i = Len(rows) THEN [outcome |-> "list", rst |-> acc]
    ELSE LET line == rows[Len(rows) - i]
             f == Format(lineFormatter, line)
             b == BreakFromThisLine(readerBreaker, i + 1, Len(rows) - (i + 1),
                                    Len(acc), f.val)
         IN  IF Len(line) = 0 THEN ReadFrom(rows, i + 1, acc)
             ELSE IF f.exc # "None" THEN [outcome |-> f.exc, rst |-> acc]
             ELSE IF readerBreaker.kind # "None" /\ b.exc # "None"
                  THEN [outcome |-> b.exc, rst |-> acc]
             ELSE IF readerBreaker.kind # "None" /\ b.val
                  THEN [outcome |-> "list", rst |-> acc]
             ELSE IF filters.given /\ ~ChainAccepts(filters.chain, 1, f.val)
                  THEN ReadFrom(rows, i + 1, acc)
             ELSE ReadFrom(rows, i + 1, Append(acc, f.val))

\* __read_data_from_file on the rows of a file
ReadDataFromFile(rows) == ReadFrom(rows, 0, <<>>)

-----------------------------------------------------------------------------
(* Properties of the scan *)

Reverse(s) == [i \in 1..Len(s) |-> s[Len(s) + 1 - i]]
NonBlank(line) == Len(line) > 0
\* the non-empty rows of the file, last one first
NonBlankFromEnd == SelectSeq(Reverse(lines), NonBlank)
Formattable(line) == Format(lineFormatter, line).exc = "None"
Formatted(line) == Format(lineFormatter, line).val

C2_BreakerBeforeFilters ==
    /\ \A j \in 1..Len(trace) :
          (readerBreaker.kind # "None" /\ trace[j].op \in {"accept", "append"}) =>
              \E k \in 1..(j - 1) : trace[k] = Event("break", trace[j].idx, 0, FALSE)
    /\ \A j \in 1..Len(trace) :
          (trace[j].op = "break" /\ trace[j].res) =>
              /\ j = Len(trace)
              /\ pc = "done"
              /\ outcome = "list"
              /\ line_index = trace[j].idx
              /\ \A k \in 1..Len(rst_index) : rst_index[k] # trace[j].idx

\* the breaker stopped the scan on a record every filter of the chain accepts,
\* with older lines left unread
C2_Witness ==
    /\ pc = "done"
    /\ Len(trace) > 0
    /\ trace[Len(trace)] = Event("break", line_index, 0, TRUE)
    /\ HasFilters
    /\ \A n \in 1..Len(filters.chain) : Accept(filters.chain[n], data)
    /\ line_index < Len(lines)
    /\ Len(rst_lines) > 0

\* C3: every record of rst_lines is the formatted line it was made from, the
\* breaker answered false on it, and every filter of the chain was called on it
\* and accepted it; no call on it answered otherwise.
C3_ResultPassedBreakerAndFilters ==
    /\ Len(rst_index) = Len(rst_lines)
    /\ \A k \in 1..Len(rst_lines) :
          /\ rst_lines[k] = Formatted(LineAt(rst_index[k]))
          /\ readerBreaker.kind # "None" =>
                /\ \E j \in 1..Len(trace) : trace[j] = Event("break", rst_index[k], 0, FALSE)
                /\ ~BreakFromThisLine(readerBreaker, rst_index[k],
                                      Len(lines) - rst_index[k], k - 1, rst_lines[k]).val
          /\ filters.given =>
                \A n \in 1..Len(filters.chain) :
                    /\ Accept(filters.chain[n], rst_lines[k])
                    /\ \E j \in 1..Len(trace) :
                          trace[j] = Event("accept", rst_index[k], n, TRUE)
          /\ \A j \in 1..Len(trace) :
                (trace[j].idx = rst_index[k] /\ trace[j].op \in {"break", "accept"})
                    => trace[j].res = (trace[j].op = "accept")

\* two records in the result of a scan with a breaker and a chain of two
\* filters, in which a filter rejected some other line
C3_Witness ==
    /\ Len(rst_lines) = 2
    /\ readerBreaker.kind = "ServerLogTimeLastBreaker"
    /\ filters.given /\ Len(filters.chain) = 2
    /\ \E j \in 1..Len(trace) : trace[j].op = "accept" /\ ~trace[j].res

\* C6 as stated: a scan of a path that is no file returns None without raising
\* and without opening a file, and logs exactly one error entry.
C6_NotFoundLogsOneError ==
    (~isFile /\ pc = "done") =>
        /\ outcome = "None"
        /\ ~opened
        /\ errorsLogged = 1

\* C6, amended: a scan of a path that is no file returns None without raising,
\* without opening or reading a file and without calling formatter, breaker or
\* filters, and logs exactly two error entries.
C6_NotFoundLogsTwoErrors ==
    /\ ~isFile => pc \in {"call", "done"}
    /\ (~isFile /\ pc = "done") =>
          /\ outcome = "None"
          /\ ~opened
          /\ errorsLogged = 2
          /\ infosLogged = 0
          /\ trace = <<>>
          /\ rst_lines = <<>>

\* the scan of a missing path has returned, the file row set being non-empty
C6_Witness == ~isFile /\ pc = "done" /\ outcome = "None" /\ Len(lines) > 0

\* C8: no call of formatter, breaker or filter and no append is made on a line
\* of zero fields, the size of the result is the number of appends, and a scan
\* ends as the scan of the file without its blank lines does: same outcome,
\* same list.
C8_BlankLinesSkipped ==
    /\ \A j \in 1..Len(trace) : Len(LineAt(trace[j].idx)) > 0
    /\ \A k \in 1..Len(rst_index) : Len(LineAt(rst_index[k])) > 0
    /\ Len(rst_lines) = Cardinality({j \in 1..Len(trace) : trace[j].op = "append"})
    /\ (isFile /\ pc = "done") =>
          LET r == ReadDataFromFile(SelectSeq(lines, NonBlank))
          IN  outcome = r.outcome /\ rst_lines = r.rst

\* a finished scan of a file with a blank line between two lines that were
\* both appended, under a breaker that was consulted
C8_Witness ==
    /\ isFile /\ pc = "done"
    /\ Len(lines) = 3 /\ Len(lines[2]) = 0
    /\ Len(rst_lines) = 2
    /\ readerBreaker.kind = "ServerLogTimeLastBreaker"

\* the lines the scan is through with, by line_index
Processed == {i \in 1..line_index : i < line_index \/ pc \in {"loop", "done"}}

\* C9: the filters are called in the order of the chain, each only after the
\* one before it accepted the record; after a rejection no further filter is
\* called on the record and it is not appended; a record is appended exactly
\* when every filter of the chain accepts it (and the breaker let it through).
C9_FilterChainShortCircuit ==
    /\ \A j \in 1..Len(trace) :
          trace[j].op = "accept" =>
              /\ trace[j].res = Accept(filters.chain[trace[j].k], Formatted(LineAt(trace[j].idx)))
              /\ trace[j].k > 1 =>
                    trace[j - 1] = Event("accept", trace[j].idx, trace[j].k - 1, TRUE)
              /\ trace[j].k = 1 =>
                    (j > 1 /\ trace[j - 1].op # "accept")
              /\ (~trace[j].res /\ j < Len(trace)) => trace[j + 1].idx # trace[j].idx
    /\ \A i \in Processed :
          (HasFilters /\ \E j \in 1..Len(trace) : trace[j].op = "accept" /\ trace[j].idx = i) =>
              ((\E j \in 1..Len(trace) : trace[j] = Event("append", i, 0, TRUE))
                  <=> \A n \in 1..Len(filters.chain) :
                         Accept(filters.chain[n], Formatted(LineAt(i))))

\* in a chain of two filters the first rejected a record that the second, the
\* always-accepting BaseLogLineFilter, accepts, and the scan went on
C9_Witness ==
    /\ filters.given /\ Len(filters.chain) = 2
    /\ filters.chain[2].kind = "BaseLogLineFilter"
    /\ \E j \in 1..Len(trace) :
          /\ trace[j].op = "accept" /\ trace[j].k = 1 /\ ~trace[j].res
          /\ j < Len(trace)

-----------------------------------------------------------------------------
(* Properties of the breakers and loaders *)

\* the minutes of the records of a sequence
Datetimes(recs) == [i \in 1..Len(recs) |-> recs[i].datetime]

\* the number of rows, from the end of the file, that a scan with start time
\* t keeps before it meets a row that is not at or after t
KeptFromEnd(t) ==
    Cardinality({i \in 1..Len(NonBlankFromEnd) :
                    \A k \in 1..i : /\ Formatted(NonBlankFromEnd[k]).datetime # EmptyStr
                                    /\ Formatted(NonBlankFromEnd[k]).datetime >= t})

\* C5: under ServerLogTimeLastBreaker(startTime) without end time the breaker
\* answers true on a record exactly when its timestamp is strictly earlier than
\* startTime (a record at startTime is kept); with filters that accept every
\* record a scan that returns holds the records from the end of the file down
\* to, and without, the first one earlier than startTime; for the timestamps
\* [10:00, 10:05, 10:10, 10:15] and startTime 10:05 it returns
\* [10:15, 10:10, 10:05].
C5_TimeWindowBoundary ==
    (readerBreaker.kind = "ServerLogTimeLastBreaker" /\ ~readerBreaker.endGiven
        /\ (filters.given => \A n \in 1..Len(filters.chain) :
                                filters.chain[n].kind = "BaseLogLineFilter")) =>
        /\ \A j \in 1..Len(trace) :
              trace[j].op = "break" =>
                  /\ Formatted(LineAt(trace[j].idx)).datetime # EmptyStr
                  /\ trace[j].res =
                        (Formatted(LineAt(trace[j].idx)).datetime < readerBreaker.startTime)
        /\ (isFile /\ pc = "done" /\ outcome = "list") =>
              /\ Len(rst_lines) = KeptFromEnd(readerBreaker.startTime)
              /\ \A i \in 1..Len(rst_lines) : rst_lines[i] = Formatted(NonBlankFromEnd[i])
        /\ (isFile /\ pc = "done" /\ readerBreaker.startTime = 605
                /\ lines = [i \in 1..4 |-> ServerLine(ServerStamp(595 + 5 * i),
                                                      "p=42&s=a%2Cb", "ua-1")]) =>
              /\ outcome = "list"
              /\ Datetimes(rst_lines) = <<615, 610, 605>>

\* the scan of the lines of 10:00, 10:05, 10:10 and 10:15 with start time
\* 10:05 has ended, by the breaker, on the line of 10:00
C5_Witness ==
    /\ isFile /\ pc = "done"
    /\ readerBreaker = TimeBreaker(605)
    /\ Len(lines) = 4
    /\ \A i \in 1..4 : Len(lines[i]) = 10 /\ lines[i][2] = ServerStamp(595 + 5 * i)
    /\ Len(rst_lines) = 3
    /\ trace[Len(trace)] = Event("break", 4, 0, TRUE)

\* C4 as stated: with LastAcceptedReaderBreaker and no filters, the load of a
\* file with at least one non-empty line, the last of which the formatter
\* takes, returns a list of exactly one record, the formatted last non-empty
\* line.
C4_LastAcceptedYieldsNewest ==
    (isFile /\ pc = "done" /\ readerBreaker.kind = "LastAcceptedReaderBreaker"
        /\ ~filters.given /\ Len(NonBlankFromEnd) > 0
        /\ Formattable(NonBlankFromEnd[1])) =>
        /\ outcome = "list"
        /\ Len(rst_lines) = 1
        /\ rst_lines[1] = Formatted(NonBlankFromEnd[1])

\* C7 as stated: the load of an existing file never ends in an exception,
\* whatever its lines: it returns a list; the breaker never answers true on a
\* record without timestamp, and no such record is in the result.
C7_LineErrorsNeverAbort ==
    /\ (isFile /\ pc = "done") => outcome = "list"
    /\ \A j \in 1..Len(trace) :
          (trace[j].op = "break" /\ trace[j].res /\ lineFormatter # "None") =>
              Formatted(LineAt(trace[j].idx)).datetime # EmptyStr
    /\ lineFormatter = "ServerLogFormatter" =>
          \A k \in 1..Len(rst_lines) : rst_lines[k].datetime # EmptyStr

\* C10 as stated: a load that failed (it logged its error) leaves every field
\* of the ConfigLoader as it was before the call.
C10_FailedLoadKeepsAllFields ==
    (cfgPc = "returned" /\ cfgErrors > 0) => cfg = cfgBefore

====
